---- MODULE Spec2Model ----
(***************************************************************************)
(* Guardian EPI: the three classifier scripts of the repository            *)
(*   ControleUniforme          (controle_uniforme.py, entry gate)          *)
(*   DetectorObjetosEstranhos  (detector_objetos.py, conveyor belt)        *)
(*   MonitorEPI                (monitor_epi.py, EPI alert)                 *)
(* One process runs one script: it constructs one instance and calls its   *)
(* methods.  Text (labels, keywords) is a sequence of one-character        *)
(* strings, a confidence is an integer number of percent points, a         *)
(* time-stamp is the wall clock in seconds.                                *)
(***************************************************************************)
EXTENDS Integers, Sequences, FiniteSets, TLC

(***************************************************************************)
(* Bounds of the model                                                     *)
(***************************************************************************)
MaxTime == 2
MaxIncidents == 2
MaxBatch == 2
MaxFrames == 4
MaxDuration == 1

(***************************************************************************)
(* Program constants                                                       *)
(***************************************************************************)
CU_CONFIDENCE_THRESHOLD == 75
DOE_CONFIDENCE_THRESHOLD == 80
MEPI_CONFIDENCE_THRESHOLD == 70
FRAME_RATE == 10
CU_DEMO_CONFIDENCE == 95
DOE_DEMO_CONFIDENCE == 98

(***************************************************************************)
(* Text                                                                    *)
(***************************************************************************)
kw_correto ==
    <<"c","o","r","r","e","t","o">>
kw_estranho ==
    <<"e","s","t","r","a","n","h","o">>
kw_foreign ==
    <<"f","o","r","e","i","g","n">>
kw_sem_epi ==
    <<"s","e","m","_","e","p","i">>
unknown ==
    <<"u","n","k","n","o","w","n">>
uniforme_correto ==
    <<"u","n","i","f","o","r","m","e","_","c","o","r","r","e","t","o">>
uniforme_incorreto ==
    <<"u","n","i","f","o","r","m","e","_","i","n","c","o","r","r","e","t","o">>
produto_limpo ==
    <<"p","r","o","d","u","t","o","_","l","i","m","p","o">>
objeto_estranho ==
    <<"o","b","j","e","t","o","_","e","s","t","r","a","n","h","o">>

\* lines of label files as they are on disk (Teachable Machine writes
\* "<index> <name>"), before line.strip()
raw_Uniforme_Correto ==
    <<"0"," ","U","n","i","f","o","r","m","e","_","C","o","r","r","e","t","o","\n">>
raw_sem_uniforme ==
    <<"1"," ","s","e","m","_","u","n","i","f","o","r","m","e","\n">>
raw_Produto_Limpo ==
    <<"0"," ","P","r","o","d","u","t","o","_","L","i","m","p","o","\n">>
raw_Foreign_Object ==
    <<" ","1"," ","F","o","r","e","i","g","n","_","O","b","j","e","c","t"," ","\n">>
raw_com_EPI ==
    <<"0"," ","c","o","m","_","E","P","I","\n">>
raw_sem_EPI ==
    <<"1"," ","s","e","m","_","E","P","I","\n">>

UpperToLower ==
    ("A" :> "a") @@ ("B" :> "b") @@ ("C" :> "c") @@ ("D" :> "d") @@ ("E" :> "e") @@
    ("F" :> "f") @@ ("G" :> "g") @@ ("H" :> "h") @@ ("I" :> "i") @@ ("J" :> "j") @@
    ("K" :> "k") @@ ("L" :> "l") @@ ("M" :> "m") @@ ("N" :> "n") @@ ("O" :> "o") @@
    ("P" :> "p") @@ ("Q" :> "q") @@ ("R" :> "r") @@ ("S" :> "s") @@ ("T" :> "t") @@
    ("U" :> "u") @@ ("V" :> "v") @@ ("W" :> "w") @@ ("X" :> "x") @@ ("Y" :> "y") @@
    ("Z" :> "z")

\* str.lower()
lower(s) ==
    [i \in 1..Len(s) |-> IF s[i] \in DOMAIN UpperToLower THEN UpperToLower[s[i]] ELSE s[i]]

\* the  needle in hay  test of str
contains(needle, hay) ==
    \E i \in 1..(Len(hay) - Len(needle) + 1) :
        SubSeq(hay, i, i + Len(needle) - 1) = needle

Whitespace == {" ", "\n", "\t", "\r"}

\* str.strip()
strip(s) ==
    LET keep == {i \in 1..Len(s) : s[i] \notin Whitespace}
    IN  IF keep = {} THEN <<>>
        ELSE LET lo == CHOOSE i \in keep : \A j \in keep : i <= j
                 hi == CHOOSE i \in keep : \A j \in keep : j <= i
             IN  SubSeq(s, lo, hi)

\* [line.strip() for line in f.readlines()]
read_labels(lines) ==
    [i \in 1..Len(lines) |-> strip(lines[i])]

(***************************************************************************)
(* The environment: which script runs, the files under models/, what the   *)
(* model answers for an image, how a write ends.                           *)
(***************************************************************************)
Apps == {"uniforme", "detector", "monitor"}

\* np.argmax over the output vector, which may be longer than the label list
ClassIndexes == 0..2

\* the label file a deployment may have (Teachable Machine writes
\* "<index> <name>" lines)
LabelFiles(a) ==
    CASE a = "uniforme" -> {<<raw_Uniforme_Correto, raw_sem_uniforme>>}
      [] a = "detector" -> {<<raw_Produto_Limpo, raw_Foreign_Object>>}
      [] a = "monitor"  -> {<<raw_com_EPI, raw_sem_EPI>>}

\* what the model answers for a readable image: <<class_index, confidence>>,
\* np.argmax over the output vector (which may be longer than the label
\* list) and the score of that class in percent points
Predictions(a) ==
    CASE a = "uniforme" -> {<<0, 90>>, <<1, 80>>, <<2, 90>>}
      [] a = "detector" -> {<<0, 98>>, <<1, 80>>, <<2, 98>>}
      [] a = "monitor"  -> {<<0, 90>>, <<1, 69>>, <<1, 70>>, <<1, 90>>, <<2, 90>>}

\* the answers a direct call of the verdict methods is tried on: every class
\* index below, at and above the threshold of the script
Scores(a) ==
    CASE a = "uniforme" -> {74, 75, 76, 80, 90}
      [] a = "detector" -> {79, 80, 81, 98}
      [] a = "monitor"  -> {69, 70, 71, 90}

\* an image path as the code sees it: os.path.exists fails ("missing"),
\* cv2.imread returns None ("undecodable"), the forward pass raises
\* ("infer_error"), or the model answers class_index with confidence
Images(a) ==
    {[kind |-> "ok", class_index |-> p[1], confidence |-> p[2]] : p \in Predictions(a)}
    \cup [kind : {"missing", "undecodable", "infer_error"},
          class_index : {0}, confidence : {0}]

\* how the two writes of an incident end.  iw, cv2.imwrite: writes the file
\* ("ok"), returns False without writing ("false"), or raises; ap,
\* open(log_file, 'a') + f.write: "ok" or raises
IoOutcomes ==
    [iw : {"ok", "false"}, ap : {"ok", "raise"}] \cup {[iw |-> "raise", ap |-> "ok"]}
IoOk == [iw |-> "ok", ap |-> "ok"]

VARIABLES
    app,                \* the script this process runs
    model_file,         \* "ok", "missing" or "corrupt": the file at MODEL_PATH
    labels_file,        \* [exists, lines]: the file at LABELS_PATH
    pc,                 \* "start", "ready", "dir", "belt", "webcam", "done"
    exit_status,        \* what main() returned, -1 while running
    model,              \* self.model: "loaded" or "none"
    labels,             \* self.labels
    violations_count,   \* ControleUniforme
    detections_count,   \* DetectorObjetosEstranhos
    false_alarms,
    line_stoppages,
    line_running,
    log,                \* the lines of the log file of LOGS_DIR
    images,             \* the evidence images of LOGS_DIR (by time-stamp)
    now,                \* wall clock, seconds
    loop,               \* locals of the running loop (directory, camera)
    last                \* the latest call: inputs, result, calls it made

vars == <<app, model_file, labels_file, pc, exit_status, model, labels,
          violations_count, detections_count, false_alarms, line_stoppages,
          line_running, log, images, now, loop, last>>

env == <<app, model_file, labels_file>>
counters == <<violations_count, detections_count, false_alarms, line_stoppages>>
files == <<log, images>>

NoLoop ==
    [remaining |-> 0, noncompliant |-> 0, log0 |-> 0, images0 |-> {}, count0 |-> 0,
     cap |-> "none", start_time |-> 0, duration |-> 0, frame_count |-> 0]

NoCall ==
    [op |-> "none", kind |-> "none", predicted |-> FALSE, class_index |-> 0,
     class_name |-> <<>>, confidence |-> 0, flag |-> FALSE, raised |-> FALSE,
     events |-> <<>>, key |-> "x", document |-> <<>>]

Init ==
    /\ app \in Apps
    /\ model_file \in {"ok", "missing", "corrupt"}
    /\ labels_file \in [exists : {TRUE}, lines : LabelFiles(app)]
                       \cup {[exists |-> FALSE, lines |-> <<>>]}
    /\ pc = "start"
    /\ exit_status = -1
    /\ model = "none"
    /\ labels = <<>>
    /\ violations_count = 0
    /\ detections_count = 0
    /\ false_alarms = 0
    /\ line_stoppages = 0
    /\ line_running = TRUE
    /\ log = <<>>
    /\ images = {}
    /\ now = 0
    /\ loop = NoLoop
    /\ last = NoCall

(***************************************************************************)
(* Helpers shared by the three classes                                     *)
(***************************************************************************)
\* f"{confidence:.2%}": percent with the given number of decimals
format_percent(confidence, decimals) ==
    [percent |-> confidence, decimals |-> decimals]

\* self.labels[class_index] if class_index < len(self.labels) else "unknown"
label_of(lbls, class_index) ==
    IF class_index < Len(lbls) THEN lbls[class_index + 1] ELSE unknown

\* the wall clock advances
Tick ==
    /\ now < MaxTime
    /\ now' = now + 1
    /\ UNCHANGED <<env, pc, exit_status, model, labels, counters, line_running,
                   files, loop, last>>

\* a method call by the caller of the instance
Call ==
    /\ pc = "ready"
    /\ Len(log) < MaxIncidents

\* what a call leaves in  last
Outcome(op, image, v, st) ==
    [op |-> op, kind |-> image.kind,
     predicted |-> ~v.raised /\ image.kind # "skipped",
     class_index |-> v.class_index, class_name |-> v.class_name,
     confidence |-> v.confidence, flag |-> v.flag, raised |-> st.raised,
     events |-> st.events, key |-> "x", document |-> <<>>]

NoVerdict ==
    [raised |-> TRUE, flag |-> FALSE, class_index |-> 0, class_name |-> <<>>,
     confidence |-> 0]

(***************************************************************************)
(* ControleUniforme                                                        *)
(***************************************************************************)
CU__load_model(file) ==
    CASE file = "missing" -> [raised |-> FALSE, model |-> "none"]
      [] file = "corrupt" -> [raised |-> TRUE, model |-> "none"]
      [] file = "ok"      -> [raised |-> FALSE, model |-> "loaded"]

\* a _load_labels that raises when the file is absent
CU__load_labels_no_default(file) ==
    IF ~file.exists
    THEN [raised |-> TRUE, labels |-> <<>>]
    ELSE [raised |-> FALSE, labels |-> read_labels(file.lines)]

CU__load_labels(file) ==
    IF ~file.exists
    THEN [raised |-> FALSE, labels |-> <<uniforme_correto, uniforme_incorreto>>]
    ELSE [raised |-> FALSE, labels |-> read_labels(file.lines)]

\* ControleUniforme(): main() returns 1 when the constructor raises
CU_Construct ==
    /\ app = "uniforme"
    /\ pc = "start"
    /\ LET m == CU__load_model(model_file)
           l == CU__load_labels(labels_file)
       IN  IF m.raised \/ l.raised
           THEN /\ pc' = "done"
                /\ exit_status' = 1
                /\ UNCHANGED <<model, labels>>
           ELSE /\ pc' = "ready"
                /\ model' = m.model
                /\ labels' = l.labels
                /\ UNCHANGED exit_status
    /\ violations_count' = 0
    /\ last' = [NoCall EXCEPT !.op = "__init__"]
    /\ UNCHANGED <<env, detections_count, false_alarms, line_stoppages,
                   line_running, files, now, loop>>

\* a verify_uniform that matches the keyword without lower()
verify_uniform_case_sensitive(mdl, lbls, image) ==
    IF mdl = "none"
    THEN [raised |-> FALSE, flag |-> TRUE, class_index |-> 0,
          class_name |-> uniforme_correto, confidence |-> CU_DEMO_CONFIDENCE]
    ELSE IF image.kind # "ok"
    THEN NoVerdict
    ELSE LET class_name == label_of(lbls, image.class_index)
         IN  [raised |-> FALSE,
              flag |-> contains(kw_correto, class_name)
                       /\ image.confidence >= CU_CONFIDENCE_THRESHOLD,
              class_index |-> image.class_index,
              class_name |-> class_name,
              confidence |-> image.confidence]

\* a verify_uniform that denies when no model is loaded
verify_uniform_demo_denies(mdl, lbls, image) ==
    IF mdl = "none"
    THEN [raised |-> FALSE, flag |-> FALSE, class_index |-> 0,
          class_name |-> unknown, confidence |-> 0]
    ELSE IF image.kind # "ok"
    THEN NoVerdict
    ELSE LET class_name == label_of(lbls, image.class_index)
         IN  [raised |-> FALSE,
              flag |-> contains(kw_correto, lower(class_name))
                       /\ image.confidence >= CU_CONFIDENCE_THRESHOLD,
              class_index |-> image.class_index,
              class_name |-> class_name,
              confidence |-> image.confidence]

\* the image is what cv2.imread returned (None when kind = "undecodable")
verify_uniform(mdl, lbls, image) ==
    IF mdl = "none"
    THEN [raised |-> FALSE, flag |-> TRUE, class_index |-> 0,
          class_name |-> uniforme_correto, confidence |-> CU_DEMO_CONFIDENCE]
    ELSE IF image.kind # "ok"
    THEN NoVerdict
    ELSE LET class_name == label_of(lbls, image.class_index)
         IN  [raised |-> FALSE,
              flag |-> contains(kw_correto, lower(class_name))
                       /\ image.confidence >= CU_CONFIDENCE_THRESHOLD,
              class_index |-> image.class_index,
              class_name |-> class_name,
              confidence |-> image.confidence]

\* st = [raised, log, images, count, events]: the files and the counter;
\* returns them as the call leaves them, with the calls it made
log_violation(st, class_name, confidence, timestamp, io) ==
    IF io.iw = "raise"
    THEN [st EXCEPT !.raised = TRUE, !.events = @ \o <<"imwrite">>]
    ELSE LET img == IF io.iw = "ok" THEN st.images \cup {timestamp} ELSE st.images
             saved == IF io.iw = "ok" THEN <<"imwrite", "image_saved">> ELSE <<"imwrite">>
             entry == [timestamp |-> timestamp, class_name |-> class_name,
                       confidence |-> format_percent(confidence, 2),
                       image |-> timestamp]
         IN  IF io.ap = "raise"
             THEN [st EXCEPT !.raised = TRUE, !.images = img,
                             !.events = @ \o saved \o <<"append">>]
             ELSE [st EXCEPT !.images = img,
                             !.log = Append(@, entry),
                             !.count = @ + 1,
                             !.events = @ \o saved \o <<"append", "line_appended", "count">>]

CU_state ==
    [raised |-> FALSE, log |-> log, images |-> images,
     count |-> violations_count, events |-> <<"verify_uniform">>]

\* a gate that denies the entry and records nothing
CU_gate_deny_without_record(v, timestamp, io) ==
    IF v.raised
    THEN [CU_state EXCEPT !.raised = TRUE]
    ELSE IF v.flag
    THEN [CU_state EXCEPT !.events = @ \o <<"grant_access">>]
    ELSE [CU_state EXCEPT !.events = @ \o <<"deny_access">>]

\* the lines shared by process_entry and the loop of process_directory:
\* grant_access, or deny_access then log_violation
CU_gate(v, timestamp, io) ==
    IF v.raised
    THEN [CU_state EXCEPT !.raised = TRUE]
    ELSE IF v.flag
    THEN [CU_state EXCEPT !.events = @ \o <<"grant_access">>]
    ELSE log_violation(
             [CU_state EXCEPT !.events = @ \o <<"deny_access", "log_violation">>],
             v.class_name, v.confidence, timestamp, io)

CU_store(op, image, v, st) ==
    /\ last' = Outcome(op, image, v, st)
    /\ violations_count' = st.count
    /\ log' = st.log
    /\ images' = st.images

\* one entry attempt: the verdict and what follows it
CU_attempt(op, image) ==
    LET v == verify_uniform(model, labels, image)
    IN  IF v.raised \/ v.flag
        THEN CU_store(op, image, v, CU_gate(v, now, IoOk))
        ELSE \E io \in IoOutcomes : CU_store(op, image, v, CU_gate(v, now, io))

\* a process_entry that hands whatever cv2.imread returned to verify_uniform
CU_process_entry_unchecked ==
    /\ app = "uniforme"
    /\ Call
    /\ \E image \in Images(app) : CU_attempt("process_entry", image)
    /\ UNCHANGED <<env, pc, exit_status, model, labels, detections_count,
                   false_alarms, line_stoppages, line_running, now, loop>>

CU_process_entry ==
    /\ app = "uniforme"
    /\ Call
    /\ \E image \in Images(app) :
        IF image.kind \in {"missing", "undecodable"}
        THEN CU_store("process_entry", image, NoVerdict,
                      [CU_state EXCEPT !.raised = TRUE, !.events = <<>>])
        ELSE CU_attempt("process_entry", image)
    /\ UNCHANGED <<env, pc, exit_status, model, labels, detections_count,
                   false_alarms, line_stoppages, line_running, now, loop>>

\* the images a direct call of a verdict method is tried on
Probes(a) ==
    [kind : {"ok"}, class_index : ClassIndexes, confidence : Scores(a)]
    \cup [kind : {"undecodable", "infer_error"}, class_index : {0}, confidence : {0}]

\* verify_uniform called by itself
CU_verify_uniform ==
    /\ app = "uniforme"
    /\ pc = "ready"
    /\ \E image \in Probes(app) :
        LET v == verify_uniform(model, labels, image)
        IN  last' = Outcome("verify_uniform", image, v,
                            [raised |-> v.raised, events |-> <<>>])
    /\ UNCHANGED <<env, pc, exit_status, model, labels, counters, line_running,
                   files, now, loop>>

\* process_directory up to the loop: the directory is missing (raises),
\* holds no image (returns), or holds n image files
CU_process_directory ==
    /\ app = "uniforme"
    /\ Call
    /\ \E n \in -1..MaxBatch :
        /\ pc' = IF n > 0 THEN "dir" ELSE "ready"
        /\ loop' = IF n > 0
                   THEN [NoLoop EXCEPT !.remaining = n, !.log0 = Len(log),
                                       !.images0 = images, !.count0 = violations_count]
                   ELSE NoLoop
        /\ last' = [NoCall EXCEPT !.op = "process_directory", !.raised = (n = -1)]
    /\ UNCHANGED <<env, exit_status, model, labels, counters, line_running,
                   files, now>>

\* one pass of the loop of process_directory: cv2.imread is not checked, an
\* exception leaves the loop and the method
CU_process_directory_image ==
    /\ app = "uniforme"
    /\ pc = "dir"
    /\ loop.remaining > 0
    /\ \E image \in Images(app) :
        /\ image.kind # "missing"
        /\ verify_uniform(model, labels, image).flag \/ Len(log) < MaxIncidents
        /\ CU_attempt("process_directory", image)
    /\ IF last'.raised
       THEN /\ pc' = "ready"
            /\ loop' = NoLoop
       ELSE /\ pc' = "dir"
            /\ loop' = [loop EXCEPT
                          !.remaining = @ - 1,
                          !.noncompliant = IF last'.flag THEN @ ELSE @ + 1]
    /\ UNCHANGED <<env, exit_status, model, labels, detections_count,
                   false_alarms, line_stoppages, line_running, now>>

\* the loop is over: the summary is printed and process_directory returns
CU_process_directory_return ==
    /\ app = "uniforme"
    /\ pc = "dir"
    /\ loop.remaining = 0
    /\ pc' = "ready"
    /\ loop' = NoLoop
    /\ last' = [NoCall EXCEPT !.op = "process_directory_return"]
    /\ UNCHANGED <<env, exit_status, model, labels, counters, line_running,
                   files, now>>

\* strftime("%Y-%m-%d"): the report file is named by the day
SecondsPerDay == 86400

\* the document is written to the report file of the day, or the write
\* fails and the exception is logged, not raised
CU_generate_compliance_report ==
    /\ app = "uniforme"
    /\ pc = "ready"
    /\ \E w \in {"ok", "raise"} :
        last' = [NoCall EXCEPT
                   !.op = "generate_compliance_report",
                   !.events = <<"write_" \o w>>,
                   !.document = IF w = "ok"
                                THEN <<[name |-> now \div SecondsPerDay,
                                        data |-> now \div SecondsPerDay,
                                        total_violacoes |-> violations_count,
                                        threshold_confianca |-> CU_CONFIDENCE_THRESHOLD]>>
                                ELSE <<>>]
    /\ UNCHANGED <<env, pc, exit_status, model, labels, counters, line_running,
                   log, images, now, loop>>

(***************************************************************************)
(* DetectorObjetosEstranhos                                                *)
(***************************************************************************)
DOE__load_model(file) ==
    CASE file = "missing" -> [raised |-> FALSE, model |-> "none"]
      [] file = "corrupt" -> [raised |-> TRUE, model |-> "none"]
      [] file = "ok"      -> [raised |-> FALSE, model |-> "loaded"]

DOE__load_labels(file) ==
    IF ~file.exists
    THEN [raised |-> FALSE, labels |-> <<produto_limpo, objeto_estranho>>]
    ELSE [raised |-> FALSE, labels |-> read_labels(file.lines)]

\* DetectorObjetosEstranhos(): main() returns 1 when the constructor raises
DOE_Construct ==
    /\ app = "detector"
    /\ pc = "start"
    /\ LET m == DOE__load_model(model_file)
           l == DOE__load_labels(labels_file)
       IN  IF m.raised \/ l.raised
           THEN /\ pc' = "done"
                /\ exit_status' = 1
                /\ UNCHANGED <<model, labels>>
           ELSE /\ pc' = "ready"
                /\ model' = m.model
                /\ labels' = l.labels
                /\ UNCHANGED exit_status
    /\ detections_count' = 0
    /\ false_alarms' = 0
    /\ line_stoppages' = 0
    /\ line_running' = TRUE
    /\ last' = [NoCall EXCEPT !.op = "__init__"]
    /\ UNCHANGED <<env, violations_count, files, now, loop>>

\* a detect_foreign_object that compares with > instead of >=
detect_foreign_object_exclusive(mdl, lbls, image) ==
    IF mdl = "none"
    THEN [raised |-> FALSE, flag |-> FALSE, class_index |-> 0,
          class_name |-> produto_limpo, confidence |-> DOE_DEMO_CONFIDENCE]
    ELSE IF image.kind # "ok"
    THEN NoVerdict
    ELSE LET class_name == label_of(lbls, image.class_index)
         IN  [raised |-> FALSE,
              flag |-> (contains(kw_estranho, lower(class_name))
                        \/ contains(kw_foreign, lower(class_name)))
                       /\ image.confidence > DOE_CONFIDENCE_THRESHOLD,
              class_index |-> image.class_index,
              class_name |-> class_name,
              confidence |-> image.confidence]

\* a detect_foreign_object that knows the keyword "estranho" only
detect_foreign_object_one_keyword(mdl, lbls, image) ==
    IF mdl = "none"
    THEN [raised |-> FALSE, flag |-> FALSE, class_index |-> 0,
          class_name |-> produto_limpo, confidence |-> DOE_DEMO_CONFIDENCE]
    ELSE IF image.kind # "ok"
    THEN NoVerdict
    ELSE LET class_name == label_of(lbls, image.class_index)
         IN  [raised |-> FALSE,
              flag |-> contains(kw_estranho, lower(class_name))
                       /\ image.confidence >= DOE_CONFIDENCE_THRESHOLD,
              class_index |-> image.class_index,
              class_name |-> class_name,
              confidence |-> image.confidence]

\* a detect_foreign_object that reports nothing while the line is stopped
detect_foreign_object_running_only(mdl, lbls, image) ==
    IF mdl = "none"
    THEN [raised |-> FALSE, flag |-> FALSE, class_index |-> 0,
          class_name |-> produto_limpo, confidence |-> DOE_DEMO_CONFIDENCE]
    ELSE IF image.kind # "ok"
    THEN NoVerdict
    ELSE LET class_name == label_of(lbls, image.class_index)
         IN  [raised |-> FALSE,
              flag |-> (contains(kw_estranho, lower(class_name))
                        \/ contains(kw_foreign, lower(class_name)))
                       /\ image.confidence >= DOE_CONFIDENCE_THRESHOLD
                       /\ line_running,
              class_index |-> image.class_index,
              class_name |-> class_name,
              confidence |-> image.confidence]

\* the image is the frame or what cv2.imread returned
detect_foreign_object(mdl, lbls, image) ==
    IF mdl = "none"
    THEN [raised |-> FALSE, flag |-> FALSE, class_index |-> 0,
          class_name |-> produto_limpo, confidence |-> DOE_DEMO_CONFIDENCE]
    ELSE IF image.kind # "ok"
    THEN NoVerdict
    ELSE LET class_name == label_of(lbls, image.class_index)
         IN  [raised |-> FALSE,
              flag |-> (contains(kw_estranho, lower(class_name))
                        \/ contains(kw_foreign, lower(class_name)))
                       /\ image.confidence >= DOE_CONFIDENCE_THRESHOLD,
              class_index |-> image.class_index,
              class_name |-> class_name,
              confidence |-> image.confidence]

\* st = [raised, log, images, count, stoppages, running, events]
stop_production_line(st) ==
    [st EXCEPT !.running = FALSE, !.stoppages = @ + 1,
               !.events = @ \o <<"stop_production_line">>]

\* a restart_production_line that clears the stoppage counter
restart_production_line_resets(st) ==
    [st EXCEPT !.running = TRUE, !.stoppages = 0,
               !.events = @ \o <<"restart_production_line">>]

restart_production_line(st) ==
    [st EXCEPT !.running = TRUE, !.events = @ \o <<"restart_production_line">>]

\* a log_detection that opens the log file with mode 'w'
log_detection_rewrites(st, class_name, confidence, timestamp, io) ==
    IF io.iw = "raise"
    THEN [st EXCEPT !.raised = TRUE, !.events = @ \o <<"imwrite">>]
    ELSE LET img == IF io.iw = "ok" THEN st.images \cup {timestamp} ELSE st.images
             saved == IF io.iw = "ok" THEN <<"imwrite", "image_saved">> ELSE <<"imwrite">>
             entry == [timestamp |-> timestamp, class_name |-> class_name,
                       confidence |-> format_percent(confidence, 2),
                       image |-> timestamp, stoppage |-> st.stoppages]
         IN  IF io.ap = "raise"
             THEN [st EXCEPT !.raised = TRUE, !.images = img,
                             !.events = @ \o saved \o <<"append">>]
             ELSE [st EXCEPT !.images = img,
                             !.log = <<entry>>,
                             !.count = @ + 1,
                             !.events = @ \o saved \o <<"append", "line_appended", "count">>]

\* a log_detection that counts the detection before it writes
log_detection_counts_first(st, class_name, confidence, timestamp, io) ==
    LET st0 == [st EXCEPT !.count = @ + 1, !.events = @ \o <<"count">>]
    IN  IF io.iw = "raise"
        THEN [st0 EXCEPT !.raised = TRUE, !.events = @ \o <<"imwrite">>]
        ELSE LET img == IF io.iw = "ok" THEN st.images \cup {timestamp} ELSE st.images
                 saved == IF io.iw = "ok" THEN <<"imwrite", "image_saved">> ELSE <<"imwrite">>
                 entry == [timestamp |-> timestamp, class_name |-> class_name,
                           confidence |-> format_percent(confidence, 2),
                           image |-> timestamp, stoppage |-> st.stoppages]
             IN  IF io.ap = "raise"
                 THEN [st0 EXCEPT !.raised = TRUE, !.images = img,
                                  !.events = @ \o saved \o <<"append">>]
                 ELSE [st0 EXCEPT !.images = img,
                                  !.log = Append(@, entry),
                                  !.events = @ \o saved \o <<"append", "line_appended">>]

log_detection(st, class_name, confidence, timestamp, io) ==
    IF io.iw = "raise"
    THEN [st EXCEPT !.raised = TRUE, !.events = @ \o <<"imwrite">>]
    ELSE LET img == IF io.iw = "ok" THEN st.images \cup {timestamp} ELSE st.images
             saved == IF io.iw = "ok" THEN <<"imwrite", "image_saved">> ELSE <<"imwrite">>
             entry == [timestamp |-> timestamp, class_name |-> class_name,
                       confidence |-> format_percent(confidence, 2),
                       image |-> timestamp, stoppage |-> st.stoppages]
         IN  IF io.ap = "raise"
             THEN [st EXCEPT !.raised = TRUE, !.images = img,
                             !.events = @ \o saved \o <<"append">>]
             ELSE [st EXCEPT !.images = img,
                             !.log = Append(@, entry),
                             !.count = @ + 1,
                             !.events = @ \o saved \o <<"append", "line_appended", "count">>]

DOE_state ==
    [raised |-> FALSE, log |-> log, images |-> images, count |-> detections_count,
     stoppages |-> line_stoppages, running |-> line_running, events |-> <<>>]

DOE_store(op, image, v, st, key) ==
    /\ last' = [Outcome(op, image, v, st) EXCEPT !.key = key]
    /\ detections_count' = st.count
    /\ line_stoppages' = st.stoppages
    /\ line_running' = st.running
    /\ log' = st.log
    /\ images' = st.images

\* a process_single_image that stops the line before it records
DOE_single_stop_first(v, timestamp, io) ==
    LET st0 == [DOE_state EXCEPT !.events = <<"detect_foreign_object">>]
    IN  IF v.raised
        THEN [st0 EXCEPT !.raised = TRUE]
        ELSE IF v.flag
        THEN LET st1 == stop_production_line(st0)
             IN  log_detection([st1 EXCEPT !.events = @ \o <<"log_detection">>],
                               v.class_name, v.confidence, timestamp, io)
        ELSE st0

\* a process_single_image that reacts on a running line only
DOE_single_running_only(v, timestamp, io) ==
    LET st0 == [DOE_state EXCEPT !.events = <<"detect_foreign_object">>]
    IN  IF v.raised
        THEN [st0 EXCEPT !.raised = TRUE]
        ELSE IF v.flag /\ st0.running
        THEN LET st1 == log_detection([st0 EXCEPT !.events = @ \o <<"log_detection">>],
                                      v.class_name, v.confidence, timestamp, io)
             IN  IF st1.raised THEN st1 ELSE stop_production_line(st1)
        ELSE st0

\* lines 355-366 of process_single_image: the verdict, then log_detection
\* and stop_production_line
DOE_single(v, timestamp, io) ==
    LET st0 == [DOE_state EXCEPT !.events = <<"detect_foreign_object">>]
    IN  IF v.raised
        THEN [st0 EXCEPT !.raised = TRUE]
        ELSE IF v.flag
        THEN LET st1 == log_detection([st0 EXCEPT !.events = @ \o <<"log_detection">>],
                                      v.class_name, v.confidence, timestamp, io)
             IN  IF st1.raised THEN st1 ELSE stop_production_line(st1)
        ELSE st0

DOE_process_single_image ==
    /\ app = "detector"
    /\ Call
    /\ \E image \in Images(app) :
        IF image.kind \in {"missing", "undecodable"}
        THEN DOE_store("process_single_image", image, NoVerdict,
                       [DOE_state EXCEPT !.raised = TRUE], "x")
        ELSE LET v == detect_foreign_object(model, labels, image)
             IN  IF v.raised \/ ~v.flag
                 THEN DOE_store("process_single_image", image, v,
                                DOE_single(v, now, IoOk), "x")
                 ELSE \E io \in IoOutcomes :
                         DOE_store("process_single_image", image, v,
                                   DOE_single(v, now, io), "x")
    /\ UNCHANGED <<env, pc, exit_status, model, labels, violations_count,
                   false_alarms, now, loop>>

\* detect_foreign_object called by itself
DOE_detect_foreign_object ==
    /\ app = "detector"
    /\ pc = "ready"
    /\ \E image \in Probes(app) :
        LET v == detect_foreign_object(model, labels, image)
        IN  last' = Outcome("detect_foreign_object", image, v,
                            [raised |-> v.raised, events |-> <<>>])
    /\ UNCHANGED <<env, pc, exit_status, model, labels, counters, line_running,
                   files, now, loop>>

\* a detection on every captured frame
FrameInterval_every_frame == 30 \div 30

\* 30 // FRAME_RATE: every how many frames the detection runs
FrameInterval == 30 \div FRAME_RATE

\* cv2.waitKey(1) & 0xFF: "x" is any other key or none
Keys == {"q", "Q", "r", "R", "x"}

\* monitor_conveyor_belt up to the loop: cv2.VideoCapture, start_time
DOE_monitor_conveyor_belt ==
    /\ app = "detector"
    /\ Call
    /\ \E opened \in BOOLEAN, duration \in 1..MaxDuration :
        /\ now + duration < MaxTime
        /\ pc' = IF opened THEN "belt" ELSE "ready"
        /\ loop' = IF opened
                   THEN [NoLoop EXCEPT !.cap = "open", !.start_time = now,
                                       !.duration = duration]
                   ELSE NoLoop
        /\ last' = [NoCall EXCEPT !.op = "monitor_conveyor_belt", !.raised = ~opened]
    /\ UNCHANGED <<env, exit_status, model, labels, counters, line_running,
                   files, now>>

\* a key handler that restarts the stopped line on any key but 'q'
DOE_key_any(st, key) ==
    IF key \notin {"q", "Q"} /\ ~st.running THEN restart_production_line(st) ELSE st

\* lines 440-449: the key read after the frame was shown
DOE_key(st, key) ==
    IF key \in {"r", "R"} /\ ~st.running THEN restart_production_line(st) ELSE st

\* a frame handler that records and stops whatever the line state
DOE_frame_ignores_line_state(v, timestamp, io) ==
    LET st0 == [DOE_state EXCEPT !.events = <<"detect_foreign_object">>]
    IN  IF v.raised
        THEN [st0 EXCEPT !.raised = TRUE]
        ELSE IF v.flag
        THEN LET st1 == log_detection([st0 EXCEPT !.events = @ \o <<"log_detection">>],
                                      v.class_name, v.confidence, timestamp, io)
             IN  IF st1.raised THEN st1 ELSE stop_production_line(st1)
        ELSE st0

\* lines 407-431: a frame on which the detection runs
DOE_frame(v, timestamp, io) ==
    LET st0 == [DOE_state EXCEPT !.events = <<"detect_foreign_object">>]
    IN  IF v.raised
        THEN [st0 EXCEPT !.raised = TRUE]
        ELSE IF ~st0.running
        THEN st0
        ELSE IF v.flag
        THEN LET st1 == log_detection([st0 EXCEPT !.events = @ \o <<"log_detection">>],
                                      v.class_name, v.confidence, timestamp, io)
             IN  IF st1.raised THEN st1 ELSE stop_production_line(st1)
        ELSE st0

\* frame_count += 1.  The loop uses the count only through its remainder by
\* the interval: beyond MaxFrames the model keeps that remainder
next_frame_count(n) ==
    IF n < MaxFrames THEN n + 1 ELSE n + 1 - FrameInterval

\* a loop that never looks at the clock
DOE_timed_out_never ==
    FALSE

\* line 395: time.time() - start_time > duration
DOE_timed_out ==
    now - loop.start_time > loop.duration

\* the loop leaves by break: cap.release(), summary, return
DOE_break(why) ==
    /\ pc' = "ready"
    /\ loop' = [NoLoop EXCEPT !.cap = "released"]
    /\ last' = [NoCall EXCEPT !.op = "monitor_frame", !.events = <<why, "release">>]
    /\ UNCHANGED <<counters, line_running, log, images>>

\* after the frame: an exception leaves the method with the camera open;
\* 'q' leaves the loop; otherwise the next pass
DOE_continue(key) ==
    IF last'.raised
    THEN /\ pc' = "ready"
         /\ loop' = [NoLoop EXCEPT !.cap = "open"]
    ELSE IF key \in {"q", "Q"}
    THEN /\ pc' = "ready"
         /\ loop' = [NoLoop EXCEPT !.cap = "released"]
    ELSE /\ pc' = "belt"
         /\ loop' = [loop EXCEPT !.frame_count = next_frame_count(@)]

\* one pass of the loop of monitor_conveyor_belt
DOE_monitor_frame ==
    /\ app = "detector"
    /\ pc = "belt"
    /\ IF DOE_timed_out
       THEN DOE_break("timeout")
       ELSE \E ret \in BOOLEAN :
              IF ~ret
              THEN DOE_break("no_frame")
              ELSE /\ \E key \in Keys :
                       /\ IF next_frame_count(loop.frame_count) % FrameInterval # 0
                          THEN DOE_store("monitor_frame",
                                         [kind |-> "skipped"], 
                                         [NoVerdict EXCEPT !.raised = FALSE],
                                         DOE_key(DOE_state, key), key)
                          ELSE \E image \in Images(app) :
                                 /\ image.kind \in {"ok", "infer_error"}
                                 /\ LET v == detect_foreign_object(model, labels, image)
                                    IN  IF v.raised \/ ~v.flag \/ ~line_running
                                        THEN DOE_store("monitor_frame", image, v,
                                                 DOE_key(DOE_frame(v, now, IoOk), key), key)
                                        ELSE /\ Len(log) < MaxIncidents
                                             /\ \E io \in IoOutcomes :
                                                 LET st == DOE_frame(v, now, io)
                                                 IN  DOE_store("monitor_frame", image, v,
                                                        IF st.raised THEN st
                                                        ELSE DOE_key(st, key), key)
                       /\ DOE_continue(key)
    /\ UNCHANGED <<env, exit_status, model, labels, violations_count,
                   false_alarms, now>>

\* strftime("%Y-%m-%d_%H-%M"): the report file is named by the minute
SecondsPerMinute == 60

\* a generate_quality_report that starts the counters of the next shift
DOE_generate_quality_report_resets ==
    /\ app = "detector"
    /\ pc = "ready"
    /\ \E w \in {"ok", "raise"} :
        last' = [NoCall EXCEPT
                   !.op = "generate_quality_report",
                   !.events = <<"write_" \o w>>,
                   !.document = IF w = "ok"
                                THEN <<[name |-> now \div SecondsPerMinute,
                                        data_hora |-> now \div SecondsPerMinute,
                                        total_deteccoes |-> detections_count,
                                        paradas_linha |-> line_stoppages,
                                        falsos_alarmes |-> false_alarms,
                                        threshold_confianca |-> DOE_CONFIDENCE_THRESHOLD,
                                        status_linha |-> IF line_running
                                                         THEN "EM OPERAÇÃO"
                                                         ELSE "PARADA"]>>
                                ELSE <<>>]
    /\ detections_count' = 0
    /\ line_stoppages' = 0
    /\ UNCHANGED <<env, pc, exit_status, model, labels, violations_count,
                   false_alarms, line_running, log, images, now, loop>>

\* the document is written to the report file of the minute, or the write
\* fails and the exception is logged, not raised
DOE_generate_quality_report ==
    /\ app = "detector"
    /\ pc = "ready"
    /\ \E w \in {"ok", "raise"} :
        last' = [NoCall EXCEPT
                   !.op = "generate_quality_report",
                   !.events = <<"write_" \o w>>,
                   !.document = IF w = "ok"
                                THEN <<[name |-> now \div SecondsPerMinute,
                                        data_hora |-> now \div SecondsPerMinute,
                                        total_deteccoes |-> detections_count,
                                        paradas_linha |-> line_stoppages,
                                        falsos_alarmes |-> false_alarms,
                                        threshold_confianca |-> DOE_CONFIDENCE_THRESHOLD,
                                        status_linha |-> IF line_running
                                                         THEN "EM OPERAÇÃO"
                                                         ELSE "PARADA"]>>
                                ELSE <<>>]
    /\ UNCHANGED <<env, pc, exit_status, model, labels, counters, line_running,
                   log, images, now, loop>>

(***************************************************************************)
(* MonitorEPI                                                              *)
(***************************************************************************)
MEPI__load_model(file) ==
    CASE file = "missing" -> [raised |-> TRUE, model |-> "none"]
      [] file = "corrupt" -> [raised |-> TRUE, model |-> "none"]
      [] file = "ok"      -> [raised |-> FALSE, model |-> "loaded"]

MEPI__load_labels(file) ==
    IF ~file.exists
    THEN [raised |-> TRUE, labels |-> <<>>]
    ELSE [raised |-> FALSE, labels |-> read_labels(file.lines)]

\* MonitorEPI(): main() returns 1 when the constructor raises
MEPI_Construct ==
    /\ app = "monitor"
    /\ pc = "start"
    /\ LET m == MEPI__load_model(model_file)
           l == MEPI__load_labels(labels_file)
       IN  IF m.raised \/ l.raised
           THEN /\ pc' = "done"
                /\ exit_status' = 1
                /\ UNCHANGED <<model, labels>>
           ELSE /\ pc' = "ready"
                /\ model' = m.model
                /\ labels' = l.labels
                /\ UNCHANGED exit_status
    /\ last' = [NoCall EXCEPT !.op = "__init__"]
    /\ UNCHANGED <<env, counters, line_running, files, now, loop>>

\* predict returns (class_name, confidence); the alert rule is the caller's
predict(mdl, lbls, image) ==
    IF mdl = "none" \/ image.kind # "ok"
    THEN NoVerdict
    ELSE [raised |-> FALSE, flag |-> FALSE,
          class_index |-> image.class_index,
          class_name |-> label_of(lbls, image.class_index),
          confidence |-> image.confidence]

\* st = [raised, log, images, events]
save_alert_image(st, timestamp, io) ==
    CASE io.iw = "raise" -> [st EXCEPT !.raised = TRUE, !.events = @ \o <<"imwrite">>]
      [] io.iw = "false" -> [st EXCEPT !.events = @ \o <<"imwrite">>]
      [] io.iw = "ok"    -> [st EXCEPT !.images = @ \cup {timestamp},
                                       !.events = @ \o <<"imwrite", "image_saved">>]

create_log_entry(st, timestamp, image_path, io) ==
    IF io.ap = "raise"
    THEN [st EXCEPT !.raised = TRUE, !.events = @ \o <<"append">>]
    ELSE [st EXCEPT !.log = Append(@, [timestamp |-> timestamp, image |-> image_path]),
                    !.events = @ \o <<"append", "line_appended">>]

\* the SMTP session ends well ("sent") or raises somewhere ("error"): the
\* exception is logged, send_email_alert returns
EmailOutcomes == {"sent", "error"}

send_email_alert(st, timestamp, image_path, email) ==
    [st EXCEPT !.events = @ \o <<"send_email_alert">>
                            \o (IF image_path \in st.images THEN <<"attach">> ELSE <<>>)
                            \o <<"email_" \o email>>]

\* a trigger_alert without the two handlers around the notification
trigger_alert_email_raises(st, timestamp, io, email) ==
    LET st0 == [st EXCEPT !.events = @ \o <<"trigger_alert">>]
        st1 == save_alert_image(st0, timestamp, io)
        st2 == create_log_entry(st1, timestamp, timestamp, io)
        st3 == send_email_alert(st2, timestamp, timestamp, email)
    IN  IF st1.raised THEN st1
        ELSE IF st2.raised THEN st2
        ELSE [st3 EXCEPT !.raised = (email = "error")]

\* image, log line, then the notification inside its own try/except
trigger_alert(st, timestamp, io, email) ==
    LET st0 == [st EXCEPT !.events = @ \o <<"trigger_alert">>]
        st1 == save_alert_image(st0, timestamp, io)
        st2 == create_log_entry(st1, timestamp, timestamp, io)
        st3 == send_email_alert(st2, timestamp, timestamp, email)
    IN  IF st1.raised THEN st1
        ELSE IF st2.raised THEN st2
        ELSE [st3 EXCEPT !.raised = FALSE]

MEPI_state ==
    [raised |-> FALSE, log |-> log, images |-> images, events |-> <<"predict">>]

MEPI_store(op, image, v, st, key) ==
    /\ last' = [Outcome(op, image, v, st) EXCEPT !.key = key]
    /\ log' = st.log
    /\ images' = st.images

\* line 357 of process_image_file
MEPI_file_rule(v) ==
    contains(kw_sem_epi, lower(v.class_name)) /\ v.confidence >= MEPI_CONFIDENCE_THRESHOLD

\* a webcam rule that forgets the threshold
MEPI_webcam_rule_any_confidence(v) ==
    contains(kw_sem_epi, lower(v.class_name))

\* line 446 of capture_from_webcam
MEPI_webcam_rule(v) ==
    contains(kw_sem_epi, lower(v.class_name)) /\ v.confidence >= MEPI_CONFIDENCE_THRESHOLD

\* the prediction, the rule, the alert sequence
MEPI_attempt(op, image, alert, key) ==
    LET p == predict(model, labels, image)
        v == [p EXCEPT !.flag = ~p.raised /\ alert]
    IN  IF v.raised
        THEN MEPI_store(op, image, v, [MEPI_state EXCEPT !.raised = TRUE], key)
        ELSE IF ~v.flag
        THEN MEPI_store(op, image, v, MEPI_state, key)
        ELSE /\ Len(log) < MaxIncidents
             /\ \E io \in IoOutcomes :
                 IF io.iw # "raise" /\ io.ap # "raise"
                 THEN \E email \in EmailOutcomes :
                        MEPI_store(op, image, v,
                                   trigger_alert(MEPI_state, now, io, email), key)
                 ELSE MEPI_store(op, image, v,
                                 trigger_alert(MEPI_state, now, io, "sent"), key)

MEPI_image(op, image) ==
    IF image.kind \in {"missing", "undecodable"}
    THEN MEPI_store(op, image, NoVerdict,
                    [MEPI_state EXCEPT !.raised = TRUE, !.events = <<>>], "x")
    ELSE MEPI_attempt(op, image,
                      MEPI_file_rule(predict(model, labels, image)), "x")

MEPI_process_image_file ==
    /\ app = "monitor"
    /\ Call
    /\ \E image \in Images(app) : MEPI_image("process_image_file", image)
    /\ UNCHANGED <<env, pc, exit_status, model, labels, counters, line_running,
                   now, loop>>

\* process_directory up to the loop: the directory is missing (raises),
\* holds no image (returns), or holds n image files
MEPI_process_directory ==
    /\ app = "monitor"
    /\ Call
    /\ \E n \in -1..MaxBatch :
        /\ pc' = IF n > 0 THEN "dir" ELSE "ready"
        /\ loop' = IF n > 0
                   THEN [NoLoop EXCEPT !.remaining = n, !.log0 = Len(log),
                                       !.images0 = images]
                   ELSE NoLoop
        /\ last' = [NoCall EXCEPT !.op = "process_directory", !.raised = (n = -1)]
    /\ UNCHANGED <<env, exit_status, model, labels, counters, line_running,
                   files, now>>

\* one pass of the loop: process_image_file on the next file; an exception
\* leaves the loop and the method
MEPI_process_directory_image ==
    /\ app = "monitor"
    /\ pc = "dir"
    /\ loop.remaining > 0
    /\ \E image \in Images(app) :
        /\ image.kind # "missing"
        /\ MEPI_image("process_directory", image)
    /\ IF last'.raised
       THEN /\ pc' = "ready"
            /\ loop' = NoLoop
       ELSE /\ pc' = "dir"
            /\ loop' = [loop EXCEPT
                          !.remaining = @ - 1,
                          !.noncompliant = IF last'.flag THEN @ + 1 ELSE @]
    /\ UNCHANGED <<env, exit_status, model, labels, counters, line_running, now>>

MEPI_process_directory_return ==
    /\ app = "monitor"
    /\ pc = "dir"
    /\ loop.remaining = 0
    /\ pc' = "ready"
    /\ loop' = NoLoop
    /\ last' = [NoCall EXCEPT !.op = "process_directory_return"]
    /\ UNCHANGED <<env, exit_status, model, labels, counters, line_running,
                   files, now>>

\* cv2.waitKey(1) & 0xFF: ESC (27), SPACE (32), any other key or none
WebcamKeys == {"esc", "space", "x"}

\* capture_from_webcam up to the loop: cv2.VideoCapture(0)
MEPI_capture_from_webcam ==
    /\ app = "monitor"
    /\ Call
    /\ \E opened \in BOOLEAN :
        /\ pc' = IF opened THEN "webcam" ELSE "ready"
        /\ loop' = IF opened THEN [NoLoop EXCEPT !.cap = "open"] ELSE NoLoop
        /\ last' = [NoCall EXCEPT !.op = "capture_from_webcam", !.raised = ~opened]
    /\ UNCHANGED <<env, exit_status, model, labels, counters, line_running,
                   files, now>>

\* one pass of the loop of capture_from_webcam
MEPI_webcam_frame ==
    /\ app = "monitor"
    /\ pc = "webcam"
    /\ \E ret \in BOOLEAN, key \in WebcamKeys :
        IF ~ret \/ key = "esc"
        THEN /\ pc' = "ready"
             /\ loop' = [NoLoop EXCEPT !.cap = "released"]
             /\ last' = [NoCall EXCEPT !.op = "webcam_frame", !.key = key,
                            !.events = <<IF ret THEN "esc" ELSE "no_frame", "release">>]
             /\ UNCHANGED <<log, images>>
        ELSE IF key # "space"
        THEN /\ last' = [NoCall EXCEPT !.op = "webcam_frame", !.key = key]
             /\ UNCHANGED <<pc, loop, log, images>>
        ELSE /\ \E image \in Images(app) :
                  /\ image.kind \in {"ok", "infer_error"}
                  /\ MEPI_attempt("webcam_frame", image,
                                  MEPI_webcam_rule(predict(model, labels, image)), key)
             /\ IF last'.raised
                THEN /\ pc' = "ready"
                     /\ loop' = [NoLoop EXCEPT !.cap = "open"]
                ELSE UNCHANGED <<pc, loop>>
    /\ UNCHANGED <<env, exit_status, model, labels, counters, line_running, now>>

NextCU ==
    \/ Tick
    \/ CU_Construct
    \/ CU_process_entry
    \/ CU_process_directory
    \/ CU_process_directory_image
    \/ CU_process_directory_return
    \/ CU_generate_compliance_report

NextDOE ==
    \/ Tick
    \/ DOE_Construct
    \/ DOE_process_single_image
    \/ DOE_monitor_conveyor_belt
    \/ DOE_monitor_frame
    \/ DOE_generate_quality_report

NextMEPI ==
    \/ Tick
    \/ MEPI_Construct
    \/ MEPI_process_image_file
    \/ MEPI_process_directory
    \/ MEPI_process_directory_image
    \/ MEPI_process_directory_return
    \/ MEPI_capture_from_webcam
    \/ MEPI_webcam_frame

\* the verdict methods called by themselves
NextVerdict ==
    \/ CU_Construct
    \/ DOE_Construct
    \/ MEPI_Construct
    \/ CU_verify_uniform
    \/ DOE_detect_foreign_object
    \/ MEPI_process_image_file
    \/ MEPI_capture_from_webcam
    \/ MEPI_webcam_frame

Next ==
    \/ NextCU
    \/ NextDOE
    \/ NextMEPI

\* the gate and the belt with their verdict methods called by themselves
\* between the other operations
NextPure ==
    \/ NextCU
    \/ NextDOE
    \/ CU_verify_uniform
    \/ DOE_detect_foreign_object

InitPure == Init /\ app \in {"uniforme", "detector"}
SpecPure == InitPure /\ [][NextPure]_vars

InitCU == Init /\ app = "uniforme"
InitDOE == Init /\ app = "detector"
InitMEPI == Init /\ app = "monitor"

Spec == Init /\ [][Next]_vars
SpecCU == InitCU /\ [][NextCU]_vars
SpecDOE == InitDOE /\ [][NextDOE]_vars
SpecMEPI == InitMEPI /\ [][NextMEPI]_vars
SpecVerdict == Init /\ [][NextVerdict]_vars

(***************************************************************************)
(* Properties                                                              *)
(***************************************************************************)
\* the belt when the clock advances and the loop keeps iterating
SpecDOELive ==
    InitDOE /\ [][NextDOE]_vars /\ WF_vars(Tick) /\ WF_vars(DOE_monitor_frame)

\* e is one of the calls recorded in evs
Has(e, evs) ==
    \E i \in 1..Len(evs) : evs[i] = e

\* the position of the first e in evs, 0 when there is none
Pos(e, evs) ==
    IF Has(e, evs) THEN CHOOSE i \in 1..Len(evs) : evs[i] = e /\ \A j \in 1..(i - 1) : evs[j] # e
    ELSE 0

\* a step of a method of the instance (the clock does not move in it)
MethodStep ==
    now' = now

\* the label texts of the model that hold the keyword, written out
CorretoLabels ==
    {<<"u","n","i","f","o","r","m","e","_","c","o","r","r","e","t","o">>,
     <<"u","n","i","f","o","r","m","e","_","i","n","c","o","r","r","e","t","o">>,
     <<"0"," ","U","n","i","f","o","r","m","e","_","C","o","r","r","e","t","o">>}
ForeignLabels ==
    {<<"o","b","j","e","t","o","_","e","s","t","r","a","n","h","o">>,
     <<"1"," ","F","o","r","e","i","g","n","_","O","b","j","e","c","t">>}
SemEpiLabels ==
    {<<"1"," ","s","e","m","_","E","P","I">>}

\* the latest call obtained a verdict from a loaded model
Verdict(a) ==
    app = a /\ model = "loaded" /\ last.predicted

\* C1: with a loaded model verify_uniform answers compliant exactly when the
\* label holds "correto" (in any case) and the confidence is at least 0.75;
\* uniforme_correto at 0.90 is compliant
C1_VerifyUniformRule ==
    Verdict("uniforme") =>
        /\ last.flag = (last.class_name \in CorretoLabels /\ last.confidence >= 75)
        /\ (last.class_name = uniforme_correto /\ last.confidence = 90 => last.flag)

C1_Witness ==
    /\ Verdict("uniforme")
    /\ last.op = "verify_uniform"
    /\ last.class_name = uniforme_correto
    /\ last.confidence = 90
    /\ last.flag

\* C2: with the labels [uniforme_correto, uniforme_incorreto], an entry the
\* model answers with index 1 at 0.80 is not compliant, access is denied and
\* one incident is recorded (one more violation, one more log line)
C2_IncorretoIsDenied ==
    [][(/\ MethodStep
        /\ app = "uniforme" /\ model = "loaded"
        /\ labels = <<uniforme_correto, uniforme_incorreto>>
        /\ last'.op = "process_entry" /\ last'.predicted /\ ~last'.raised
        /\ last'.class_index = 1 /\ last'.confidence = 80)
       => (/\ last'.class_name = uniforme_incorreto
           /\ ~last'.flag
           /\ Has("deny_access", last'.events)
           /\ ~Has("grant_access", last'.events)
           /\ violations_count' = violations_count + 1
           /\ Len(log') = Len(log) + 1)]_vars

\* C3: the three thresholds are inclusive: a keyword label at exactly the
\* threshold meets it, below the threshold it never does
C3_InclusiveThreshold ==
    /\ Verdict("uniforme") /\ last.class_name \in CorretoLabels =>
          /\ (last.confidence = 75 => last.flag)
          /\ (last.confidence < 75 => ~last.flag)
    /\ Verdict("detector") /\ last.class_name \in ForeignLabels =>
          /\ (last.confidence = 80 => last.flag)
          /\ (last.confidence < 80 => ~last.flag)
    /\ Verdict("monitor") /\ last.class_name \in SemEpiLabels =>
          /\ (last.confidence = 70 => last.flag /\ Has("trigger_alert", last.events))
          /\ (last.confidence < 70 => ~last.flag /\ ~Has("trigger_alert", last.events))

C3_Witness ==
    /\ Verdict("detector")
    /\ last.class_name = objeto_estranho
    /\ last.confidence = 80
    /\ last.flag

\* C4: with a loaded model detect_foreign_object answers foreign exactly when
\* the label holds "estranho" or "foreign" (in any case) and the confidence
\* is at least 0.80
C4_DetectForeignRule ==
    Verdict("detector") =>
        last.flag = (last.class_name \in ForeignLabels /\ last.confidence >= 80)

C4_Witness ==
    /\ Verdict("detector")
    /\ last.op = "detect_foreign_object"
    /\ last.class_name \in ForeignLabels
    /\ last.class_name # objeto_estranho
    /\ last.confidence = 98
    /\ last.flag

\* C5: MonitorEPI runs the alert sequence for an image exactly when the label
\* holds "sem_epi" (in any case) and the confidence is at least 0.70, from a
\* file and from the webcam alike; otherwise no image is saved, no log line
\* appended, no email attempted
C5_AlertRule ==
    [][(MethodStep /\ app = "monitor" /\ last'.predicted
        /\ last'.op \in {"process_image_file", "process_directory", "webcam_frame"})
       => LET alert == last'.class_name \in SemEpiLabels /\ last'.confidence >= 70
          IN  /\ Has("trigger_alert", last'.events) = alert
              /\ ~alert => /\ log' = log
                           /\ images' = images
                           /\ ~Has("imwrite", last'.events)
                           /\ ~Has("append", last'.events)
                           /\ ~Has("send_email_alert", last'.events)]_vars

C5_Witness ==
    /\ Verdict("monitor")
    /\ last.op = "webcam_frame"
    /\ last.class_name \in SemEpiLabels
    /\ last.confidence = 70
    /\ Has("trigger_alert", last.events)
    /\ Has("send_email_alert", last.events)

\* C6: a foreign-object verdict obtained while the line runs stops the line
\* and adds one stoppage by the end of the image or frame (the line runs at
\* the end only if the operator restarted it in the same pass)
C6_ForeignVerdictStopsLine ==
    [][(/\ MethodStep
        /\ app = "detector"
        /\ last'.op \in {"process_single_image", "monitor_frame"}
        /\ last'.predicted /\ last'.flag
        /\ line_running)
       => (/\ Has("stop_production_line", last'.events)
           /\ line_stoppages' = line_stoppages + 1
           /\ (~line_running' \/ Has("restart_production_line", last'.events)))]_vars

\* C7: a stopped line starts again only by restart_production_line, which
\* monitor_conveyor_belt calls on an 'r' or 'R' key only
C7_RestartOnlyByOperator ==
    [][(~line_running /\ line_running')
       => (/\ last'.op = "monitor_frame"
           /\ last'.key \in {"r", "R"}
           /\ Has("restart_production_line", last'.events))]_vars

C7_Witness ==
    /\ app = "detector"
    /\ last.op = "monitor_frame"
    /\ last.key \in {"r", "R"}
    /\ Has("restart_production_line", last.events)
    /\ line_running
    /\ line_stoppages > 0

\* the loop of process_directory has handled its last image
BatchDone ==
    pc = "dir" /\ loop.remaining = 0

\* C8: after a batch with K non-compliant verdicts there are K new log
\* lines, K new evidence images and K more violations, whatever the time
\* between the incidents (taking the batches all of whose log lines name an
\* evidence image that exists)
C8_BatchRecordsEachIncident ==
    (/\ BatchDone
     /\ \A i \in (loop.log0 + 1)..Len(log) : log[i].image \in images)
    => /\ Len(log) - loop.log0 = loop.noncompliant
       /\ Cardinality(images \ loop.images0) = loop.noncompliant
       /\ app = "uniforme" => violations_count - loop.count0 = loop.noncompliant

\* C9: when the notification fails, trigger_alert returns normally, the log
\* line and the image of the incident stay written and the caller goes on
\* with the next image
C9_EmailFailureIsSwallowed ==
    [][(MethodStep /\ app = "monitor" /\ Has("email_error", last'.events))
       => (/\ ~last'.raised
           /\ Len(log') = Len(log) + 1
           /\ SubSeq(log', 1, Len(log)) = log
           /\ log'[Len(log')].timestamp = now
           /\ images \subseteq images'
           /\ (Has("image_saved", last'.events) => now \in images')
           /\ pc' = pc
           /\ (pc = "dir" => loop'.remaining = loop.remaining - 1))]_vars

C9_Witness ==
    /\ app = "monitor"
    /\ pc = "dir"
    /\ loop.remaining > 0
    /\ Has("email_error", last.events)
    /\ Has("image_saved", last.events)
    /\ ~last.raised

\* C10: the notification is attempted only after the evidence image was
\* saved and the log line appended, in that order; no email when either
\* write failed
C10_NotifyAfterPersist ==
    (app = "monitor" /\ Has("send_email_alert", last.events))
    => /\ Has("image_saved", last.events)
       /\ Has("line_appended", last.events)
       /\ Pos("image_saved", last.events) < Pos("line_appended", last.events)
       /\ Pos("line_appended", last.events) < Pos("send_email_alert", last.events)
       /\ log # <<>>
       /\ log[Len(log)].image \in images

\* the constructor returned an instance
Constructed ==
    pc \notin {"start", "done"} /\ exit_status = -1

\* the constructor raised and main() returned 1
StartupFailed ==
    pc = "done" /\ exit_status = 1

C12_MissingModelFailsStartup ==
    (model_file = "missing" /\ pc # "start")
    => /\ StartupFailed
       /\ last.op = "__init__"
       /\ ~Has("grant_access", last.events)
       /\ ~Has("deny_access", last.events)
       /\ ~Has("detect_foreign_object", last.events)

\* C13: the label a classifier returns is the label of the instance's label
\* list at the arg-max index, or "unknown" when the index is beyond the
\* list; an index beyond the list does not raise
C13_LabelFromLabelSet ==
    /\ last.predicted
         => last.class_name = (IF last.class_index < Len(labels)
                               THEN labels[last.class_index + 1]
                               ELSE unknown)
    /\ (last.kind = "ok" /\ model = "loaded") => last.predicted

\* C14: in process_directory an error on one image (not decodable, failed
\* inference, failed write of its incident) leaves the loop running: the
\* image is skipped and the loop goes on with the remaining images
C14_BatchSurvivesImageError ==
    [][(/\ MethodStep
        /\ pc = "dir"
        /\ loop.remaining > 0
        /\ last'.op = "process_directory"
        /\ last'.raised)
       => (pc' = "dir" /\ loop'.remaining = loop.remaining - 1)]_vars

\* C15: whatever happened before (earlier verdicts, counters, line state),
\* the verdict is the same function of the label and the confidence, and a
\* call of verify_uniform or detect_foreign_object by itself changes no
\* counter, no file and not the line state
C15_VerdictIsPure ==
    [][MethodStep =>
        /\ (app = "uniforme" /\ last'.predicted)
             => last'.flag = (last'.class_name \in CorretoLabels
                              /\ last'.confidence >= 75)
        /\ (app = "detector" /\ last'.predicted)
             => last'.flag = (last'.class_name \in ForeignLabels
                              /\ last'.confidence >= 80)
        /\ last'.op \in {"verify_uniform", "detect_foreign_object"}
             => UNCHANGED <<counters, line_running, log, images, pc, model, labels>>]_vars

C15_Witness ==
    /\ app = "detector"
    /\ last.op = "detect_foreign_object"
    /\ last.predicted /\ last.flag
    /\ ~line_running
    /\ line_stoppages > 0
    /\ detections_count > 0

\* C16: the log file only grows at its end: every step keeps the lines it
\* found, in their order, and adds at most one; it adds one exactly when
\* the step recorded an incident
C16_LogAppendOnly ==
    [][/\ Len(log') >= Len(log)
       /\ SubSeq(log', 1, Len(log)) = log
       /\ Len(log') <= Len(log) + 1
       /\ Len(log') = Len(log) + 1
            <=> (MethodStep /\ Has("line_appended", last'.events))]_vars

C16_Witness ==
    /\ app = "detector"
    /\ Len(log) = 2
    /\ log[1].timestamp <= log[2].timestamp
    /\ line_stoppages = 2
    /\ last.op = "generate_quality_report"

\* C17: the run counters are 0 at the start and every step of the instance
\* (report generation and restart_production_line included) leaves each of
\* them as it is or adds 1
C17_CountersOnlyGrowByOne ==
    /\ violations_count = 0 /\ detections_count = 0 /\ line_stoppages = 0
    /\ [][/\ violations_count' \in {violations_count, violations_count + 1}
          /\ detections_count' \in {detections_count, detections_count + 1}
          /\ line_stoppages' \in {line_stoppages, line_stoppages + 1}]_vars

C17_Witness ==
    /\ app = "detector"
    /\ line_stoppages = 2
    /\ detections_count = 2
    /\ line_running
    /\ Has("restart_production_line", last.events)

\* C18: a report holds the counters as they are when it is generated, and
\* for the detector the status "PARADA" exactly when the line is stopped;
\* generating it changes no counter, not the line state and no log
C18_ReportIsSnapshot ==
    [][(MethodStep
        /\ last'.op \in {"generate_compliance_report", "generate_quality_report"})
       => /\ UNCHANGED <<violations_count, detections_count, false_alarms,
                         line_stoppages, line_running, log, images>>
          /\ \A i \in 1..Len(last'.document) :
               LET report == last'.document[i]
               IN  IF app = "uniforme"
                   THEN report.total_violacoes = violations_count
                   ELSE /\ report.total_deteccoes = detections_count
                        /\ report.paradas_linha = line_stoppages
                        /\ report.falsos_alarmes = false_alarms
                        /\ (report.status_linha = "PARADA") = ~line_running
                        /\ (report.status_linha = "EM OPERAÇÃO") = line_running]_vars

C18_Witness ==
    /\ app = "detector"
    /\ last.op = "generate_quality_report"
    /\ Len(last.document) = 1
    /\ last.document[1].status_linha = "PARADA"
    /\ last.document[1].paradas_linha = 1
    /\ last.document[1].total_deteccoes = 1
    /\ ~line_running
    /\ line_stoppages = 1
    /\ detections_count = 1

\* C19: once a camera loop is left, by its normal end or by an exception,
\* the camera it opened has been released
C19_CameraReleasedOnExit ==
    pc \notin {"belt", "webcam"} => loop.cap # "open"

\* C20: every line of the incident log carries the time-stamp, the label,
\* the confidence and the path of the evidence image of its incident
C20_LogLineHasFourFields ==
    \A i \in 1..Len(log) :
        {"timestamp", "class_name", "confidence", "image"} \subseteq DOMAIN log[i]

\* C21: a failed write of an evidence image, a log line or a report file
\* reaches the caller as an exception: the operation does not return
\* normally, appends no line for an image that was not written and counts
\* nothing
C21_WriteFailureSurfaced ==
    /\ Has("write_raise", last.events) => last.raised
    /\ (Has("append", last.events) /\ ~Has("line_appended", last.events))
         => last.raised
    /\ (Has("imwrite", last.events) /\ ~Has("image_saved", last.events))
         => /\ last.raised
            /\ ~Has("line_appended", last.events)
            /\ ~Has("count", last.events)

\* how many times the call e is recorded in evs
Count(e, evs) ==
    Cardinality({i \in 1..Len(evs) : evs[i] = e})

\* C22: at the gate every image with a verdict gets exactly one of
\* grant_access and deny_access; grant_access only on a compliant verdict;
\* a deny_access is followed at once by exactly one log_violation, within
\* the handling of the same image
C22_GrantOrDenyThenRecord ==
    (app = "uniforme"
     /\ last.op \in {"process_entry", "process_directory"}
     /\ last.predicted)
    => /\ Count("grant_access", last.events) + Count("deny_access", last.events) = 1
       /\ Has("grant_access", last.events) = last.flag
       /\ Has("deny_access", last.events)
            => /\ Count("log_violation", last.events) = 1
               /\ Pos("log_violation", last.events) = Pos("deny_access", last.events) + 1
       /\ ~Has("deny_access", last.events) => ~Has("log_violation", last.events)

C22_Witness ==
    /\ app = "uniforme"
    /\ model = "loaded"
    /\ last.op = "process_directory"
    /\ last.predicted /\ ~last.flag
    /\ Has("deny_access", last.events)
    /\ Has("log_violation", last.events)
    /\ violations_count = 2

\* a pass of the loop of monitor_conveyor_belt that captured a frame
FramePass ==
    /\ MethodStep
    /\ app = "detector"
    /\ pc = "belt"
    /\ last'.op = "monitor_frame"
    /\ last'.kind # "none"

\* C23: the detection runs exactly on the frames whose 1-based count is a
\* multiple of 3; on any other frame there is no verdict, no incident
\* record and the line is not stopped (the key read of that pass may still
\* restart a stopped line)
C23_DetectionEveryThirdFrame ==
    [][FramePass =>
        /\ Has("detect_foreign_object", last'.events) = ((loop.frame_count + 1) % 3 = 0)
        /\ (loop.frame_count + 1) % 3 # 0
             => /\ ~last'.predicted
                /\ UNCHANGED <<detections_count, line_stoppages, log, images>>
                /\ ~Has("stop_production_line", last'.events)
                /\ line_running => line_running']_vars

C23_Witness ==
    /\ app = "detector"
    /\ pc = "belt"
    /\ last.op = "monitor_frame"
    /\ last.kind = "skipped"
    /\ loop.frame_count = 2
    /\ line_running
    /\ line_stoppages = 0

\* C23 as stated: on a frame without detection the line state does not
\* change at all
C23_SkippedFrameKeepsLineState ==
    [][FramePass =>
        /\ Has("detect_foreign_object", last'.events) = ((loop.frame_count + 1) % 3 = 0)
        /\ (loop.frame_count + 1) % 3 # 0
             => /\ ~last'.predicted
                /\ UNCHANGED <<detections_count, line_stoppages, log, images>>
                /\ line_running' = line_running]_vars

\* C24: the loop of monitor_conveyor_belt ends; a pass made after the
\* duration elapsed leaves it, and so does a pass with a 'q'/'Q' key or a
\* failed frame read, whether the line runs or is stopped
C24_BeltLoopTerminates ==
    /\ (pc = "belt") ~> (pc # "belt")
    /\ [][(MethodStep /\ app = "detector" /\ pc = "belt")
          => /\ now - loop.start_time > loop.duration
                  => pc' = "ready" /\ Has("timeout", last'.events)
             /\ Has("no_frame", last'.events) => pc' = "ready"
             /\ (last'.kind # "none" /\ last'.key \in {"q", "Q"}) => pc' = "ready"]_vars

C24_Witness ==
    /\ app = "detector"
    /\ pc = "ready"
    /\ last.op = "monitor_frame"
    /\ Has("timeout", last.events)
    /\ ~line_running
    /\ loop.cap = "released"

\* C25: a frame handled while the line is stopped records nothing, whatever
\* its verdict: counters, log and images stay as they are; on a running
\* line that was stopped before, a frame with a foreign-object verdict
\* whose record is written counts a new detection and stops the line again
C25_StoppedLineRecordsNothing ==
    [][FramePass =>
        /\ ~line_running
             => /\ UNCHANGED <<detections_count, line_stoppages, log, images>>
                /\ ~Has("log_detection", last'.events)
                /\ ~Has("stop_production_line", last'.events)
        /\ (line_running /\ line_stoppages > 0
            /\ last'.predicted /\ last'.flag /\ ~last'.raised)
             => /\ detections_count' = detections_count + 1
                /\ line_stoppages' = line_stoppages + 1
                /\ Len(log') = Len(log) + 1
                /\ Has("stop_production_line", last'.events)]_vars

C25_Witness ==
    /\ app = "detector"
    /\ pc = "belt"
    /\ last.op = "monitor_frame"
    /\ last.predicted /\ last.flag
    /\ ~Has("log_detection", last.events)
    /\ ~line_running
    /\ line_stoppages = 1
    /\ detections_count = 1
    /\ Len(log) = 1

\* the line was stopped, restarted, and stopped again by a frame
C25_WitnessStoppedAgain ==
    /\ app = "detector"
    /\ last.op = "monitor_frame"
    /\ Has("stop_production_line", last.events)
    /\ line_stoppages = 2
    /\ detections_count = 2

\* an image or a frame handled by the detector, whatever the outcome
DetectorPass ==
    /\ MethodStep
    /\ app = "detector"
    /\ last'.op \in {"process_single_image", "monitor_frame"}

\* C26: stop_production_line is called only after log_detection returned
\* normally; when log_detection raises, the exception reaches the caller
\* and line_running and line_stoppages are as before: a running line keeps
\* running in spite of the foreign-object verdict
C26_RecordBeforeStop ==
    [][DetectorPass =>
        /\ Has("stop_production_line", last'.events)
             => /\ Has("count", last'.events)
                /\ Pos("log_detection", last'.events) < Pos("count", last'.events)
                /\ Pos("count", last'.events) < Pos("stop_production_line", last'.events)
        /\ (Has("log_detection", last'.events) /\ ~Has("count", last'.events))
             => /\ last'.raised
                /\ last'.flag
                /\ line_running' = line_running
                /\ line_stoppages' = line_stoppages
                /\ detections_count' = detections_count]_vars

C26_Witness ==
    /\ app = "detector"
    /\ last.op = "monitor_frame"
    /\ last.predicted /\ last.flag /\ last.raised
    /\ Has("log_detection", last.events)
    /\ ~Has("stop_production_line", last.events)
    /\ line_running
    /\ line_stoppages = 0

\* C27: the detector has counted as many detections as stoppages after
\* every image and frame, recording failures included; and the line state
\* is the one set by the latest of stop_production_line and
\* restart_production_line (in a pass of the belt loop the key, hence the
\* restart, comes after the stop)
C27_DetectionsEqualStoppages ==
    /\ [](app = "detector" => detections_count = line_stoppages)
    /\ [][line_running' =
            IF DetectorPass /\ Has("restart_production_line", last'.events)
            THEN TRUE
            ELSE IF DetectorPass /\ Has("stop_production_line", last'.events)
            THEN FALSE
            ELSE line_running]_vars

C27_Witness ==
    /\ app = "detector"
    /\ last.op = "process_single_image"
    /\ last.flag /\ last.raised
    /\ Has("log_detection", last.events)
    /\ detections_count = 1
    /\ line_stoppages = 1

\* C28: process_single_image with a foreign-object verdict on a line that
\* is already stopped records the detection and calls stop_production_line
\* all the same: both counters grow and the line stays stopped
C28_SingleImageIgnoresLineState ==
    [][(/\ MethodStep
        /\ app = "detector"
        /\ last'.op = "process_single_image"
        /\ last'.predicted /\ last'.flag /\ ~last'.raised
        /\ ~line_running)
       => /\ Has("log_detection", last'.events)
          /\ Has("stop_production_line", last'.events)
          /\ detections_count' = detections_count + 1
          /\ line_stoppages' = line_stoppages + 1
          /\ Len(log') = Len(log) + 1
          /\ ~line_running']_vars

\* two stoppages counted before any belt loop was entered, hence without
\* a restart: one change from running to stopped
C28_Witness ==
    /\ app = "detector"
    /\ last.op = "process_single_image"
    /\ Has("stop_production_line", last.events)
    /\ ~line_running
    /\ line_stoppages = 2
    /\ detections_count = 2
    /\ loop = NoLoop

\* C29: an instance of ControleUniforme or DetectorObjetosEstranhos built
\* without a model file answers every image with the same verdict
\* (compliant "uniforme_correto" 0.95, no foreign object "produto_limpo"
\* 0.98): access is granted, the line keeps running, nothing is recorded
\* and the counters stay 0
C29_DemoModeFailsOpen ==
    (app \in {"uniforme", "detector"} /\ model_file = "missing" /\ pc # "start")
    => /\ Constructed
       /\ violations_count = 0 /\ detections_count = 0 /\ line_stoppages = 0
       /\ line_running
       /\ log = <<>>
       /\ images = {}
       /\ last.predicted
            => /\ app = "uniforme"
                    => /\ last.flag
                       /\ last.class_name = uniforme_correto
                       /\ last.confidence = 95
                       /\ last.op # "verify_uniform" => Has("grant_access", last.events)
               /\ app = "detector"
                    => /\ ~last.flag
                       /\ last.class_name = produto_limpo
                       /\ last.confidence = 98
       /\ ~Has("deny_access", last.events)
       /\ ~Has("log_violation", last.events)
       /\ ~Has("log_detection", last.events)
       /\ ~Has("stop_production_line", last.events)

\* in a directory even a file that cannot be decoded is granted access
C29_Witness ==
    /\ app = "uniforme"
    /\ model_file = "missing"
    /\ last.op = "process_directory"
    /\ last.kind = "undecodable"
    /\ last.predicted /\ last.flag
    /\ Has("grant_access", last.events)

\* C30: process_entry on a path that does not exist or cannot be decoded
\* raises and changes nothing: same violations_count, same log, same
\* images, and neither grant_access nor deny_access is called
C30_UnreadableEntryRaises ==
    [][(/\ MethodStep
        /\ app = "uniforme"
        /\ last'.op = "process_entry"
        /\ last'.kind \in {"missing", "undecodable"})
       => /\ last'.raised
          /\ ~last'.predicted
          /\ UNCHANGED <<violations_count, log, images, pc, model, labels>>
          /\ ~Has("grant_access", last'.events)
          /\ ~Has("deny_access", last'.events)
          /\ ~Has("log_violation", last'.events)]_vars

C30_Witness ==
    /\ app = "uniforme"
    /\ last.op = "process_entry"
    /\ last.kind = "undecodable"
    /\ last.raised
    /\ violations_count = 1
    /\ Len(log) = 1

====
